---------------------------- MODULE Spec2Model ----------------------------
(***************************************************************************)
(* The two batch loaders of the repository:                                *)
(*   churn  : ETL_PIPELINE/scripts/load.py       load_to_supabase          *)
(*   air    : urban_air_pollutants/load.py       load_to_supabase,         *)
(*                                               insert_batch              *)
(* A run reads a staged CSV, cuts it in chunks of 200 rows and sends each  *)
(* chunk to the remote table, retrying a failed insert.  The remote store  *)
(* is the environment: each insert call gets one of the Outcomes.          *)
(* Rows are identified by their position in the CSV (1..n).                *)
(*                                                                         *)
(* The stages around the loaders, each under a specification of its own:   *)
(*   ChurnSpec     : ETL_PIPELINE transform_data, load, run_validation,    *)
(*                   run_analysis                                          *)
(*   TransformSpec : urban_air_pollutants run_transform                    *)
(*   RiskSpec      : urban_air_pollutants classify_risk                    *)
(*   CleanSpec     : urban_air_pollutants clean_record                     *)
(*   PipelineSpec  : urban_air_pollutants run_full_pipeline                *)
(***************************************************************************)
EXTENDS Integers, Sequences, FiniteSets, TLC

VARIABLES
    loader,         \* which load.py is running: "churn" or "air"
    csv_rows,       \* number of data rows of the staged CSV file
    pc,             \* position of the run
    total_rows,     \* len(df)
    start,          \* churn: loop variable of the batch loop
    retry,          \* churn: loop variable of the retry loop
    records,        \* churn: the record list of the current batch
    i,              \* air: loop variable of the batch loop
    attempt,        \* air: loop variable of insert_batch
    batch_records,  \* air: the record list of the current batch
    success_count,  \* air
    fail_count,     \* air
    ret,            \* value returned to the caller: <<>> is None
    table,          \* remote table: the rows committed, in commit order
    cur,            \* history: index (1-based) of the current/last chunk
    trail,          \* history: insert calls and sleeps of chunk cur
    attempted,      \* history: chunks that received an insert call
    succeeded,      \* history: chunks the loader took as inserted
    failed,         \* history: chunks the loader gave up
    sent            \* history: chunks concatenated in order of first send

VARIABLES
    copy_on_write,  \* churn transform: pandas runs with copy-on-write
    cpc,            \* churn transform/validation: position
    raw_df,         \* churn transform: the frame read from the raw CSV
    churn_df,       \* churn transform: df
    df_supabase,    \* churn validation: the rows read back from the table
    summary,        \* churn validation: the summary dictionary
    analysis_df,    \* churn analysis: df with customer_segment
    apc             \* churn analysis: position

VARIABLES
    severity,       \* classify_risk: the argument
    risk_flag       \* classify_risk: the result

VARIABLES
    docs,           \* run_transform: the documents of RAW_DIR, in listing order
    xpc,            \* run_transform: position
    file_ix,        \* run_transform: number of documents the loop has taken
    all_rows,       \* run_transform: all_rows
    out_df          \* run_transform: the frame written to OUTPUT_FILE

VARIABLES
    row,            \* clean_record: the row of the frame
    record,         \* clean_record: the record returned
    passes          \* clean_record: times the coercion was applied

VARIABLES
    ppc,            \* run_full_pipeline: position
    called,         \* run_full_pipeline: the stages called so far, in order
    staged_csv,     \* run_full_pipeline: the value run_transform returned
    csv_path        \* load_to_supabase: the argument handed to pd.read_csv

loadVars == <<loader, csv_rows, pc, total_rows, start, retry, records, i,
              attempt, batch_records, success_count, fail_count, ret, table,
              cur, trail, attempted, succeeded, failed, sent>>

churnVars ==
    <<copy_on_write, cpc, raw_df, churn_df, df_supabase, summary, analysis_df,
      apc>>

riskVars == <<severity, risk_flag>>

transformVars == <<docs, xpc, file_ix, all_rows, out_df>>

cleanVars == <<row, record, passes>>

pipeVars == <<ppc, called, staged_csv, csv_path>>

\* The stages other than the loaders.
otherStages == <<churnVars, riskVars, transformVars, cleanVars, pipeVars>>

\* The stages other than the churn transform and validation.
exceptChurn == <<loadVars, riskVars, transformVars, cleanVars, pipeVars>>

exceptRisk == <<loadVars, churnVars, transformVars, cleanVars, pipeVars>>

exceptTransform == <<loadVars, churnVars, riskVars, cleanVars, pipeVars>>

exceptClean == <<loadVars, churnVars, riskVars, transformVars, pipeVars>>

\* The stages the pipeline runner does not run in the model: the loaders,
\* the churn stages, classify_risk alone and clean_record alone.
exceptPipe == <<loadVars, churnVars, riskVars, cleanVars>>

vars == <<loadVars, otherStages>>

-----------------------------------------------------------------------------
(* Program constants *)

batch_size == 200

max_retries == 3

BATCH_SIZE == 200

retries == 2

(* Bounds of the model *)

MaxRows == 401

MaxBatchRows == 450

MaxChurnRows == 4

MaxTenure == 72

MaxSeverity == 450

MaxDocs == 2

MaxTimes == 3

-----------------------------------------------------------------------------
(* Helpers *)

Min(a, b) == IF a < b THEN a ELSE b

Loaders == {"churn", "air"}

\* Row counts of the retry model: around every chunk boundary up to MaxRows.
RowCounts ==
    {0, 1} \cup ((BATCH_SIZE - 1) .. (BATCH_SIZE + 1))
           \cup ((2 * BATCH_SIZE - 1) .. MaxRows)

\* df after pd.read_csv: the rows of the file in file order.
Frame(n) == [j \in 1..n |-> j]

\* df.iloc[s : s + size] (positions are 0-based, the end is clipped).
\* SliceOffByOne, RangeNextSkip, GiveUpAbortsRun and AddRowsFullBatch are
\* faulty variants
\* used to test that the properties below depend on these definitions.
SliceOffByOne(df, s, size) == SubSeq(df, s + 2, Min(s + size, Len(df)))

Slice(df, s, size) == SubSeq(df, s + 1, Min(s + size, Len(df)))

\* The next value of range(0, total_rows, step) after s.
RangeNextSkip(s, step) == s + 2 * step

RangeNext(s, step) == s + step

\* The batch loop after a batch was given up: the inner `break` (churn, line
\* 140) or `return False` (air, line 77) leaves only the retry loop, and the
\* batch loop goes on with the next value of its range.
GiveUpAbortsRun(s, step, n) == n

GiveUpNext(s, step, n) == RangeNext(s, step)

\* start // batch_size + 1: the 1-based number of the batch starting at s.
BatchNo(s, size) == (s \div size) + 1

\* Number of values of range(0, n, size).
NumChunks(n, size) == (n + size - 1) \div size

\* Rows of chunk k of an n-row frame.
ChunkRows(n, k, size) == Min(size, n - (k - 1) * size)

RECURSIVE RowsIn(_, _, _)
RowsIn(n, K, size) ==
    IF K = {} THEN 0
    ELSE LET k == CHOOSE x \in K : TRUE
         IN  ChunkRows(n, k, size) + RowsIn(n, K \ {k}, size)

\* What one insert(...).execute() call can do:
\*   exc       the call raised an exception
\*   data      response.data is not None
\*   error     the response carries an error payload
\*   committed the remote store committed the rows
\* A call that raised may or may not have been committed (the connection can
\* drop after the commit); a response with an error payload was not
\* committed; a response without one was.
Outcomes ==
    {[exc |-> TRUE, data |-> FALSE, error |-> FALSE, committed |-> c] :
        c \in BOOLEAN}
    \cup {[exc |-> FALSE, data |-> d, error |-> TRUE, committed |-> FALSE] :
        d \in BOOLEAN}
    \cup {[exc |-> FALSE, data |-> d, error |-> FALSE, committed |-> TRUE] :
        d \in BOOLEAN}

OkOutcome == [exc |-> FALSE, data |-> TRUE, error |-> FALSE, committed |-> TRUE]

\* The remote store appends the rows of a committed insert (ids are serial).
Commit(tbl, recs, o) == IF o.committed THEN tbl \o recs ELSE tbl

\* churn: the try body reaches the "Inserted" print: no exception from
\* execute(), and not (hasattr(response, "error") and response.error).
ChurnInserted(o) == ~o.exc /\ ~o.error

\* churn: `if retry < max_retries - 1` in the except branch.
ChurnRetryAgain(r) == r < max_retries - 1

\* air: insert_batch reaches `return True`: no exception from execute() and
\* response.data is not None.
AirReturnsTrue(o) == ~o.exc /\ o.data

\* air: range(retries + 1) has a value after a.
AirNextAttempt(a) == a + 1 < retries + 1

\* air: count += len(batch_records)
AddRowsFullBatch(count, recs) == count + BATCH_SIZE

AddRows(count, recs) == count + Len(recs)

\* History entries of trail.
InsertEv(o, ok) == [kind |-> "insert", o |-> o, ok |-> ok]

SleepEv == [kind |-> "sleep", o |-> OkOutcome, ok |-> FALSE]

-----------------------------------------------------------------------------
(* Values of data cells *)

\* A cell of a frame or of a JSON document: a number, a missing value (NaN,
\* None, null), a non-numeric text, or the bound method Series.median.
Num(n) == [t |-> "num", v |-> n]

NaN == [t |-> "nan", v |-> 0]

Text == [t |-> "str", v |-> 0]

MedianMethod == [t |-> "method", v |-> 0]

IsNa(x) == x.t = "nan"

\* A derived label that is missing, and a derived column not yet added.
NoLabel == "<NA>"

NoColumn == "<absent>"

-----------------------------------------------------------------------------
(* A stage that is not part of the specification at hand does not run. *)

LoadIdle ==
    /\ loader = "churn"
    /\ csv_rows = 0
    /\ pc = "idle"
    /\ total_rows = 0
    /\ start = 0
    /\ retry = 0
    /\ records = <<>>
    /\ i = 0
    /\ attempt = 0
    /\ batch_records = <<>>
    /\ success_count = 0
    /\ fail_count = 0
    /\ ret = <<>>
    /\ table = <<>>
    /\ cur = 0
    /\ trail = <<>>
    /\ attempted = {}
    /\ succeeded = {}
    /\ failed = {}
    /\ sent = <<>>

ChurnIdle ==
    /\ copy_on_write = FALSE
    /\ cpc = "idle"
    /\ raw_df = <<>>
    /\ churn_df = <<>>
    /\ df_supabase = <<>>
    /\ summary = <<>>
    /\ analysis_df = <<>>
    /\ apc = "idle"

RiskIdle ==
    /\ severity = NaN
    /\ risk_flag = NoColumn

TransformIdle ==
    /\ docs = <<>>
    /\ xpc = "idle"
    /\ file_ix = 0
    /\ all_rows = <<>>
    /\ out_df = <<>>

CleanIdle ==
    /\ row = <<>>
    /\ record = <<>>
    /\ passes = 0

\* Python's None as a value of a path variable, and a variable not yet
\* assigned.
NoneValue == "None"

Unassigned == "<unassigned>"

PipeIdle ==
    /\ ppc = "idle"
    /\ called = <<>>
    /\ staged_csv = Unassigned
    /\ csv_path = Unassigned

-----------------------------------------------------------------------------
(* Initial states *)

InitWith(counts) ==
    /\ loader \in Loaders
    /\ csv_rows \in counts
    /\ pc = "start"
    /\ total_rows = 0
    /\ start = 0
    /\ retry = 0
    /\ records = <<>>
    /\ i = 0
    /\ attempt = 0
    /\ batch_records = <<>>
    /\ success_count = 0
    /\ fail_count = 0
    /\ ret = <<>>
    /\ table = <<>>
    /\ cur = 0
    /\ trail = <<>>
    /\ attempted = {}
    /\ succeeded = {}
    /\ failed = {}
    /\ sent = <<>>
    /\ ChurnIdle
    /\ RiskIdle
    /\ TransformIdle
    /\ CleanIdle
    /\ PipeIdle

Init == InitWith(RowCounts)

histUnchanged == UNCHANGED <<cur, trail, attempted, succeeded, failed, sent>>

churnUnchanged == UNCHANGED <<start, retry, records>>

airUnchanged == UNCHANGED <<i, attempt, batch_records, success_count, fail_count>>

-----------------------------------------------------------------------------
(* churn loader: ETL_PIPELINE/scripts/load.py *)

\* Lines 93-111: the file check, the client, read_csv.  A missing file
\* returns at line 102; missing credentials raise ValueError in
\* get_supabase_client, caught at line 144.  Both leave the function
\* returning None.
ChurnOpen(file_exists, credentials) ==
    /\ loader = "churn"
    /\ pc = "start"
    /\ IF file_exists /\ credentials
       THEN /\ total_rows' = csv_rows
            /\ start' = 0
            /\ pc' = "loop"
       ELSE /\ pc' = "early"
            /\ UNCHANGED <<total_rows, start>>
    /\ ret' = <<>>
    /\ UNCHANGED <<otherStages, loader, csv_rows, retry, records, table>>
    /\ airUnchanged
    /\ histUnchanged

\* Lines 116-121: next value of start, cut the batch, enter the retry loop.
ChurnBatch ==
    /\ loader = "churn"
    /\ pc = "loop"
    /\ start < total_rows
    /\ records' = Slice(Frame(total_rows), start, batch_size)
    /\ retry' = 0
    /\ cur' = BatchNo(start, batch_size)
    /\ trail' = <<>>
    /\ pc' = "try"
    /\ UNCHANGED <<otherStages, loader, csv_rows, total_rows, start, ret, table,
                   attempted, succeeded, failed, sent>>
    /\ airUnchanged

\* Lines 122-140: one pass of the retry loop body up to the sleep.
ChurnInsert(o) ==
    /\ loader = "churn"
    /\ pc = "try"
    /\ table' = Commit(table, records, o)
    /\ attempted' = attempted \cup {cur}
    /\ sent' = IF cur \in attempted THEN sent ELSE sent \o records
    /\ trail' = Append(trail, InsertEv(o, ChurnInserted(o)))
    /\ IF ChurnInserted(o)
       THEN \* lines 128-130: print "Inserted", break
            /\ succeeded' = succeeded \cup {cur}
            /\ failed' = failed
            /\ start' = RangeNext(start, batch_size)
            /\ pc' = "loop"
       ELSE IF ChurnRetryAgain(retry)
       THEN \* lines 135-137: about to sleep
            /\ pc' = "sleep"
            /\ UNCHANGED <<succeeded, failed, start>>
       ELSE \* lines 138-140: "Failed after retries. Skipping batch.", break
            /\ failed' = failed \cup {cur}
            /\ succeeded' = succeeded
            /\ start' = GiveUpNext(start, batch_size, total_rows)
            /\ pc' = "loop"
    /\ UNCHANGED <<otherStages, loader, csv_rows, total_rows, retry, records, ret, cur>>
    /\ airUnchanged

\* Line 137 and the next value of retry.
ChurnSleep ==
    /\ loader = "churn"
    /\ pc = "sleep"
    /\ trail' = Append(trail, SleepEv)
    /\ retry' = retry + 1
    /\ pc' = "try"
    /\ UNCHANGED <<otherStages, loader, csv_rows, total_rows, start, records, ret, table,
                   cur, attempted, succeeded, failed, sent>>
    /\ airUnchanged

\* Line 142: the batch loop is exhausted; the function returns None.
ChurnFinish ==
    /\ loader = "churn"
    /\ pc = "loop"
    /\ start >= total_rows
    /\ ret' = <<>>
    /\ pc' = "done"
    /\ UNCHANGED <<otherStages, loader, csv_rows, total_rows, table>>
    /\ churnUnchanged
    /\ airUnchanged
    /\ histUnchanged

-----------------------------------------------------------------------------
(* air-quality loader: urban_air_pollutants/load.py *)

\* Lines 114-123: read_csv, to_datetime, the counters.  Neither call is
\* guarded: an unreadable file or an unparsable time column raises out of
\* load_to_supabase.
AirOpen(readable, parsable) ==
    /\ loader = "air"
    /\ pc = "start"
    /\ IF readable /\ parsable
       THEN /\ total_rows' = csv_rows
            /\ success_count' = 0
            /\ fail_count' = 0
            /\ i' = 0
            /\ pc' = "loop"
       ELSE /\ pc' = "raised"
            /\ UNCHANGED <<total_rows, success_count, fail_count, i>>
    /\ UNCHANGED <<otherStages, loader, csv_rows, attempt, batch_records, ret, table>>
    /\ churnUnchanged
    /\ histUnchanged

\* Lines 126-134 and 63-64: cut the batch, call insert_batch.
AirBatch ==
    /\ loader = "air"
    /\ pc = "loop"
    /\ i < total_rows
    /\ batch_records' = Slice(Frame(total_rows), i, BATCH_SIZE)
    /\ attempt' = 0
    /\ cur' = BatchNo(i, BATCH_SIZE)
    /\ trail' = <<>>
    /\ pc' = "try"
    /\ UNCHANGED <<otherStages, loader, csv_rows, total_rows, i, success_count, fail_count,
                   ret, table, attempted, succeeded, failed, sent>>
    /\ churnUnchanged

\* Lines 65-73, and 136-138 when insert_batch returns True.
AirInsert(o) ==
    /\ loader = "air"
    /\ pc = "try"
    /\ table' = Commit(table, batch_records, o)
    /\ attempted' = attempted \cup {cur}
    /\ sent' = IF cur \in attempted THEN sent ELSE sent \o batch_records
    /\ trail' = Append(trail, InsertEv(o, AirReturnsTrue(o)))
    /\ IF AirReturnsTrue(o)
       THEN /\ success_count' = AddRows(success_count, batch_records)
            /\ succeeded' = succeeded \cup {cur}
            /\ i' = RangeNext(i, BATCH_SIZE)
            /\ pc' = "loop"
       ELSE /\ pc' = "sleep"
            /\ UNCHANGED <<success_count, succeeded, i>>
    /\ UNCHANGED <<otherStages, loader, csv_rows, total_rows, attempt, batch_records,
                   fail_count, ret, cur, failed>>
    /\ churnUnchanged

\* Line 75, then the next value of attempt, or line 77 and 139-141 when the
\* range is exhausted.
AirSleep ==
    /\ loader = "air"
    /\ pc = "sleep"
    /\ trail' = Append(trail, SleepEv)
    /\ IF AirNextAttempt(attempt)
       THEN /\ attempt' = attempt + 1
            /\ pc' = "try"
            /\ UNCHANGED <<fail_count, failed, i>>
       ELSE /\ fail_count' = AddRows(fail_count, batch_records)
            /\ failed' = failed \cup {cur}
            /\ i' = GiveUpNext(i, BATCH_SIZE, total_rows)
            /\ pc' = "loop"
            /\ attempt' = attempt
    /\ UNCHANGED <<otherStages, loader, csv_rows, total_rows, batch_records, success_count,
                   ret, table, cur, attempted, succeeded, sent>>
    /\ churnUnchanged

\* Lines 143-150: the summary and the return value.
AirFinish ==
    /\ loader = "air"
    /\ pc = "loop"
    /\ i >= total_rows
    /\ ret' = <<success_count, fail_count>>
    /\ pc' = "done"
    /\ UNCHANGED <<otherStages, loader, csv_rows, total_rows, table>>
    /\ churnUnchanged
    /\ airUnchanged
    /\ histUnchanged

-----------------------------------------------------------------------------
(* Specifications *)

Next ==
    \/ \E f \in BOOLEAN, c \in BOOLEAN : ChurnOpen(f, c)
    \/ ChurnBatch
    \/ \E o \in Outcomes : ChurnInsert(o)
    \/ ChurnSleep
    \/ ChurnFinish
    \/ \E r \in BOOLEAN, p \in BOOLEAN : AirOpen(r, p)
    \/ AirBatch
    \/ \E o \in Outcomes : AirInsert(o)
    \/ AirSleep
    \/ AirFinish

Spec == Init /\ [][Next]_vars

\* A started run keeps executing: the loader is one sequential thread and
\* every remote call returns.
FairSpec == Spec /\ WF_vars(Next)

\* Every run leaves load_to_supabase: by its end, an early return or an
\* exception.
RunTerminates == <>(pc \in {"done", "early", "raised"})

\* The batching alone: every file length up to MaxBatchRows, a remote store
\* that accepts every insert.
BatchInit == InitWith(0 .. MaxBatchRows)

BatchNext ==
    \/ ChurnOpen(TRUE, TRUE)
    \/ ChurnBatch
    \/ ChurnInsert(OkOutcome)
    \/ ChurnFinish
    \/ AirOpen(TRUE, TRUE)
    \/ AirBatch
    \/ AirInsert(OkOutcome)
    \/ AirFinish

BatchSpec == BatchInit /\ [][BatchNext]_vars

-----------------------------------------------------------------------------
(* churn transform: ETL_PIPELINE/scripts/transform.py transform_data *)

FillCols == {"tenure", "MonthlyCharges", "TotalCharges"}

RawRow(t, m, c) ==
    [tenure |-> t, MonthlyCharges |-> m, TotalCharges |-> c,
     tenure_group |-> NoColumn, monthly_charge_segment |-> NoColumn]

\* Rows of the raw CSV the frames are built from.  TotalCharges is read as
\* text when a cell is blank.
ChurnRowCatalog ==
    {RawRow(Num(5), Num(20), Num(100)),
     RawRow(Num(36), Num(30), Text),
     RawRow(Num(60), Num(70), Num(300)),
     RawRow(Num(61), Num(69), NaN),
     RawRow(NaN, NaN, Num(50)),
     RawRow(Num(12), Num(29), Num(200))}

ChurnFrames ==
    UNION {[1..n -> ChurnRowCatalog] : n \in 0..MaxChurnRows}
    \cup {<<RawRow(Num(t), Num(20), Num(100))>> : t \in 0..MaxTenure}

\* pd.to_numeric(..., errors='coerce')
ToNumeric(x) == IF x.t = "num" THEN x ELSE NaN

\* The value handed to fillna at line 70: `df[col].median` is the bound
\* method itself, the code does not call it.
FillValue(frame, col) == MedianMethod

\* Series.fillna(value): a scalar that is not list-like replaces every
\* missing cell (the column turns to object dtype to hold it).
FillNa(x, value) == IF IsNa(x) THEN value ELSE x

\* Line 67.
CoerceTotalCharges(frame) ==
    [r \in 1..Len(frame) |->
        [frame[r] EXCEPT !.TotalCharges = ToNumeric(@)]]

\* Lines 68-70.  df[col].fillna(..., inplace=True) works on the Series that
\* df[col] returns: without copy-on-write it is df's own column, with
\* copy-on-write it is a copy and df keeps its missing cells.
FillFrame(frame, cow) ==
    IF cow THEN frame
    ELSE [r \in 1..Len(frame) |->
            [col \in DOMAIN frame[r] |->
                IF col \in FillCols
                THEN FillNa(frame[r][col], FillValue(frame, col))
                ELSE frame[r][col]]]

\* Some cell of the columns of line 68 is missing.
HasMissing(frame) ==
    \E r \in 1..Len(frame) : \E col \in FillCols : IsNa(frame[r][col])

\* pd.cut(df['tenure'], bins=[0, 12, 36, 60, inf], labels=[...],
\* include_lowest=True): right-closed bins (0,12] (12,36] (36,60] (60,inf],
\* the first one closed at 0 as well; a missing or out-of-range cell gets no
\* label.
TenureGroup(x) ==
    IF x.t # "num" \/ x.v < 0 THEN NoLabel
    ELSE IF x.v <= 12 THEN "New"
    ELSE IF x.v <= 36 THEN "Regular"
    ELSE IF x.v <= 60 THEN "Loyal"
    ELSE "Champion"

\* pd.cut(df['MonthlyCharges'], bins=[0, 30, 70, inf], labels=[...],
\* right=False): left-closed bins [0,30) [30,70) [70,inf).
ChargeSegment(x) ==
    IF x.t # "num" \/ x.v < 0 THEN NoLabel
    ELSE IF x.v < 30 THEN "Low"
    ELSE IF x.v < 70 THEN "Medium"
    ELSE "High"

\* pd.cut compares the cells with the bin edges: a cell holding the bound
\* method cannot be compared and the call raises TypeError.
CutRaises(frame, col) == \E r \in 1..Len(frame) : frame[r][col].t = "method"

\* to_csv followed by read_csv: the bound method is written as its text.
CsvCell(x) == IF x.t = "method" THEN Text ELSE x

ChurnInit ==
    /\ LoadIdle
    /\ RiskIdle
    /\ TransformIdle
    /\ CleanIdle
    /\ PipeIdle
    /\ copy_on_write \in BOOLEAN
    /\ cpc = "start"
    /\ raw_df \in ChurnFrames
    /\ churn_df = <<>>
    /\ df_supabase = <<>>
    /\ summary = <<>>
    /\ analysis_df = <<>>
    /\ apc = "start"

\* Lines 66-70: read_csv, to_numeric, the fillna loop.  The pandas version
\* is not pinned: from pandas 3 on (strict; copy-on-write is then always on)
\* an in-place fillna with a value the float column cannot hold raises
\* TypeError at line 70.
TransformFill(strict) ==
    /\ cpc = "start"
    /\ strict => copy_on_write
    /\ IF strict /\ HasMissing(CoerceTotalCharges(raw_df))
       THEN /\ churn_df' = CoerceTotalCharges(raw_df)
            /\ cpc' = "raised"
       ELSE /\ churn_df' = FillFrame(CoerceTotalCharges(raw_df), copy_on_write)
            /\ cpc' = "filled"
    /\ UNCHANGED <<exceptChurn, copy_on_write, raw_df, df_supabase, summary,
                   analysis_df, apc>>

\* Lines 76-120: the two pd.cut columns and the staged CSV.  (The other
\* derived columns and the dropped ones are not part of the rows modelled.)
TransformDerive ==
    /\ cpc = "filled"
    /\ IF CutRaises(churn_df, "tenure") \/ CutRaises(churn_df, "MonthlyCharges")
       THEN /\ cpc' = "raised"
            /\ UNCHANGED churn_df
       ELSE /\ churn_df' =
                [r \in 1..Len(churn_df) |->
                    [churn_df[r] EXCEPT
                        !.tenure_group = TenureGroup(churn_df[r].tenure),
                        !.monthly_charge_segment =
                            ChargeSegment(churn_df[r].MonthlyCharges),
                        !.TotalCharges = CsvCell(@)]]
            /\ cpc' = "staged"
    /\ UNCHANGED <<exceptChurn, copy_on_write, raw_df, df_supabase, summary,
                   analysis_df, apc>>

\* load.py is run on the staged CSV: load_to_supabase starts, and goes on
\* with the actions of the churn loader (ChurnOpen .. ChurnFinish).
ChurnStartLoad ==
    /\ cpc = "staged"
    /\ cpc' = "loading"
    /\ csv_rows' = Len(churn_df)
    /\ pc' = "start"
    /\ UNCHANGED <<riskVars, transformVars, cleanVars, pipeVars,
                   copy_on_write, raw_df, churn_df, df_supabase, summary,
                   analysis_df, apc>>
    /\ UNCHANGED <<loader, total_rows, start, retry, records, i, attempt,
                   batch_records, success_count, fail_count, ret, table>>
    /\ histUnchanged

\* load_to_supabase has returned.
LoadEnded == cpc = "loading" /\ pc \in {"done", "early"}

\* supabase.table(...).select("*"): the rows of the table, in insert order;
\* a loader row is the position of a row of the staged CSV.
TableFrame == [j \in 1..Len(table) |-> churn_df[table[j]]]

-----------------------------------------------------------------------------
(* churn validation: ETL_PIPELINE/scripts/validate.py run_validation *)

expected_tenure_groups == {"0-12", "12-24", "24-48", "48-60", "60-72", "72+"}

expected_monthly_charge_segments == {"Low", "Medium", "High"}

\* set(df_supabase[col].dropna().unique()), the empty set when the column
\* is not in the frame.
LabelsPresent(frame, col) ==
    {frame[r][col] : r \in 1..Len(frame)} \ {NoLabel, NoColumn}

\* Lines 57-110 (the keys of the summary about rows and segments).
\* fetch_supabase_data builds its own client: without SUPABASE_URL or
\* SUPABASE_KEY get_supabase_client raises ValueError (lines 32-33) and
\* run_validation ends without a summary.
RunValidation(credentials) ==
    /\ LoadEnded
    /\ IF credentials
       THEN /\ df_supabase' = TableFrame
            /\ summary' =
                [original_rows |-> Len(churn_df),
                 supabase_rows |-> Len(TableFrame),
                 tenure_groups_present |->
                    LabelsPresent(TableFrame, "tenure_group"),
                 missing_tenure_groups |->
                    expected_tenure_groups
                        \ LabelsPresent(TableFrame, "tenure_group"),
                 charge_segments_present |->
                    LabelsPresent(TableFrame, "monthly_charge_segment"),
                 missing_charge_segments |->
                    expected_monthly_charge_segments
                        \ LabelsPresent(TableFrame, "monthly_charge_segment")]
            /\ cpc' = "validated"
       ELSE /\ cpc' = "validation_raised"
            /\ UNCHANGED <<df_supabase, summary>>
    /\ UNCHANGED <<exceptChurn, copy_on_write, raw_df, churn_df, analysis_df,
                   apc>>

-----------------------------------------------------------------------------
(* churn analysis: ETL_PIPELINE/scripts/etl_analysis.py run_analysis *)

\* A comparison with NaN is false.
Lt(x, bound) == x.t = "num" /\ x.v < bound

AtLeast(x, bound) == x.t = "num" /\ x.v >= bound

\* Lines 53-61.
categorize_customers(tenure) ==
    IF Lt(tenure, 12) THEN "New"
    ELSE IF AtLeast(tenure, 12) /\ Lt(tenure, 36) THEN "Regular"
    ELSE IF AtLeast(tenure, 36) /\ Lt(tenure, 60) THEN "Loyal"
    ELSE "Champion"

\* pd.DataFrame(res.data) holds a column whose values are all null as
\* objects (None), and categorize_customers(None) raises TypeError at its
\* first comparison; next to a number the null is the float NaN.
TenureAllNone(frame) ==
    frame # <<>> /\ \A r \in 1..Len(frame) : IsNa(frame[r].tenure)

\* Lines 74-83: the table read back and the customer_segment column.  With
\* an empty table run_analysis returns at line 78.  run_analysis is a script
\* of its own: it runs once the load has ended, before or after the
\* validation.  fetch_data builds its own client: without SUPABASE_URL or
\* SUPABASE_KEY get_supabase_client raises ValueError (lines 37-38).
RunAnalysis(credentials) ==
    /\ apc = "start"
    /\ LoadEnded \/ cpc \in {"validated", "validation_raised"}
    /\ IF ~credentials
       THEN /\ apc' = "raised"
            /\ UNCHANGED analysis_df
       ELSE IF TableFrame = <<>>
       THEN /\ apc' = "returned"
            /\ UNCHANGED analysis_df
       ELSE IF TenureAllNone(TableFrame)
       THEN /\ apc' = "raised"
            /\ UNCHANGED analysis_df
       ELSE /\ analysis_df' =
                [r \in 1..Len(TableFrame) |->
                    [tenure |-> TableFrame[r].tenure,
                     tenure_group |-> TableFrame[r].tenure_group,
                     customer_segment |->
                        categorize_customers(TableFrame[r].tenure)]]
            /\ apc' = "done"
    /\ UNCHANGED <<exceptChurn, copy_on_write, cpc, raw_df, churn_df,
                   df_supabase, summary>>

ChurnNext ==
    \/ \E strict \in BOOLEAN : TransformFill(strict)
    \/ TransformDerive
    \/ ChurnStartLoad
    \/ \E credentials \in BOOLEAN : ChurnOpen(TRUE, credentials)
    \/ ChurnBatch
    \/ \E o \in Outcomes : ChurnInsert(o)
    \/ ChurnSleep
    \/ ChurnFinish
    \/ \E credentials \in BOOLEAN : RunValidation(credentials)
    \/ \E credentials \in BOOLEAN : RunAnalysis(credentials)

ChurnSpec == ChurnInit /\ [][ChurnNext]_vars

-----------------------------------------------------------------------------
(* air-quality transform: urban_air_pollutants/transform.py classify_risk *)

\* A comparison with NaN is false.
Gt(x, bound) == x.t = "num" /\ x.v > bound

\* Lines 53-59.
classify_risk(sev) ==
    IF Gt(sev, 400) THEN "High Risk"
    ELSE IF Gt(sev, 200) THEN "Moderate Risk"
    ELSE "Low Risk"

RiskInit ==
    /\ LoadIdle
    /\ ChurnIdle
    /\ TransformIdle
    /\ CleanIdle
    /\ PipeIdle
    /\ severity \in {Num(n) : n \in 0..MaxSeverity} \cup {NaN}
    /\ risk_flag = NoColumn

\* df["risk_flag"] = df["severity_score"].apply(classify_risk), one cell.
ClassifyRisk ==
    /\ risk_flag = NoColumn
    /\ risk_flag' = classify_risk(severity)
    /\ UNCHANGED <<exceptRisk, severity>>

RiskNext == ClassifyRisk

RiskSpec == RiskInit /\ [][RiskNext]_vars

-----------------------------------------------------------------------------
(* air-quality transform: urban_air_pollutants/transform.py run_transform *)

pollutant_cols ==
    {"pm10", "pm2_5", "carbon_monoxide", "nitrogen_dioxide",
     "sulphur_dioxide", "ozone"}

\* The keys run_transform reads from an hourly document.
HourlyCols == pollutant_cols \cup {"uv_index"}

\* A document of RAW_DIR:
\*   kind    "unreadable" (open or json.load raises), "scalar" (JSON null, a
\*           number or a boolean), "unknown" (an object, array or string
\*           that holds neither key), "keyed" (an array with the element
\*           "results" or "hourly", or a string with one of them in it),
\*           "results", "hourly" (objects)
\*   results the stations, each the list of its measurements
\*   n       len(hourly["time"])
\*   has     the keys of HourlyCols present in hourly
\*   arr     their arrays
Doc(kind, stations, n, has, arr) ==
    [kind |-> kind, results |-> stations, n |-> n, has |-> has, arr |-> arr]

NoArrays == [c \in HourlyCols |-> <<>>]

Measurement(parameter, value) == [parameter |-> parameter, value |-> value]

DocUnreadable == Doc("unreadable", <<>>, 0, {}, NoArrays)

DocScalar == Doc("scalar", <<>>, 0, {}, NoArrays)

DocUnknown == Doc("unknown", <<>>, 0, {}, NoArrays)

DocKeyed == Doc("keyed", <<>>, 0, {}, NoArrays)

\* Two stations: readings of pm25 (30), no2 (null) and bc (7), and one of
\* o3 whose value is a text.
DocResults ==
    Doc("results",
        <<<<Measurement("pm25", Num(30)), Measurement("no2", NaN),
            Measurement("bc", Num(7))>>,
          <<Measurement("o3", Text)>>>>,
        0, {}, NoArrays)

\* k timestamps, every array present; hour j reads 10 * j for each key.
DocHourlyFull(k) ==
    Doc("hourly", <<>>, k, HourlyCols,
        [c \in HourlyCols |-> [j \in 1..k |-> Num(10 * j)]])

\* k timestamps, only the pm2_5 array (readings of 500) present.
DocHourlySparse(k) ==
    Doc("hourly", <<>>, k, {"pm2_5"},
        [c \in HourlyCols |->
            IF c = "pm2_5" THEN [j \in 1..k |-> Num(500)] ELSE <<>>])

\* One timestamp, every pollutant array present and holding null.
DocHourlyNulls ==
    Doc("hourly", <<>>, 1, pollutant_cols,
        [c \in HourlyCols |-> IF c \in pollutant_cols THEN <<NaN>> ELSE <<>>])

\* One timestamp, every pollutant array present, ozone holding a text.
DocHourlyText ==
    Doc("hourly", <<>>, 1, pollutant_cols,
        [c \in HourlyCols |->
            IF c = "ozone" THEN <<Text>>
            ELSE IF c \in pollutant_cols THEN <<Num(20)>> ELSE <<>>])

DocCatalog ==
    {DocUnreadable, DocScalar, DocUnknown, DocKeyed, DocResults,
     DocHourlyNulls, DocHourlyText}
    \cup {DocHourlyFull(k) : k \in 0..MaxTimes}
    \cup {DocHourlySparse(k) : k \in 1..MaxTimes}

\* Lines 100-127: the row of one measurement.
ParameterColumn(parameter) ==
    IF parameter = "pm10" THEN "pm10"
    ELSE IF parameter = "pm25" \/ parameter = "pm2.5" THEN "pm2_5"
    ELSE IF parameter = "co" THEN "carbon_monoxide"
    ELSE IF parameter = "no2" THEN "nitrogen_dioxide"
    ELSE IF parameter = "so2" THEN "sulphur_dioxide"
    ELSE IF parameter = "o3" THEN "ozone"
    ELSE "none"

\* A row of all_rows: city stands for the file the row comes from, time for
\* the position of the reading in it.
BlankRow(city, time) ==
    [city |-> city, time |-> time, pm10 |-> NaN, pm2_5 |-> NaN,
     carbon_monoxide |-> NaN, nitrogen_dioxide |-> NaN,
     sulphur_dioxide |-> NaN, ozone |-> NaN, uv_index |-> NaN]

MeasurementRow(city, time, m) ==
    [c \in DOMAIN BlankRow(city, time) |->
        IF c = ParameterColumn(m.parameter) THEN m.value
        ELSE BlankRow(city, time)[c]]

RECURSIVE Flatten(_)
Flatten(ss) == IF ss = <<>> THEN <<>> ELSE Head(ss) \o Flatten(Tail(ss))

\* Lines 96-129.
ResultsRows(city, d) ==
    LET ms == Flatten(d.results)
    IN  [j \in 1..Len(ms) |-> MeasurementRow(city, j, ms[j])]

\* hourly.get(c, [None]): the array, or the one-element default.
HourlyGet(d, c) == IF c \in d.has THEN d.arr[c] ELSE <<NaN>>

\* Lines 136-146: the row of timestamp j (1-based).  uv_index is indexed
\* only when the key is present.
HourlyRow(city, d, j) ==
    [c \in DOMAIN BlankRow(city, j) |->
        IF c = "city" THEN city
        ELSE IF c = "time" THEN j
        ELSE IF c = "uv_index" /\ c \notin d.has THEN NaN
        ELSE HourlyGet(d, c)[j]]

\* The number of timestamps whose row can be built: indexing an array (or
\* the default [None]) past its end raises IndexError.
HourlyIndexable(d) ==
    LET lens == {Len(HourlyGet(d, c)) : c \in pollutant_cols}
                \cup {Len(d.arr[c]) : c \in d.has \cap {"uv_index"}}
        most == CHOOSE x \in lens : \A y \in lens : x <= y
    IN  Min(d.n, most)

HourlyRows(city, d) ==
    [j \in 1..HourlyIndexable(d) |-> HourlyRow(city, d, j)]

\* Lines 23-35.
categorize_aqi(pm2_5) ==
    IF IsNa(pm2_5) THEN NoLabel
    ELSE IF pm2_5.v <= 50 THEN "Good"
    ELSE IF pm2_5.v <= 100 THEN "Moderate"
    ELSE IF pm2_5.v <= 200 THEN "Unhealthy"
    ELSE IF pm2_5.v <= 300 THEN "Very Unhealthy"
    ELSE "Hazardous"

\* Float arithmetic: NaN propagates.
Times(x, k) == IF x.t = "num" THEN Num(x.v * k) ELSE NaN

Plus(x, y) == IF x.t = "num" /\ y.t = "num" THEN Num(x.v + y.v) ELSE NaN

\* Lines 40-48.
compute_severity(rw) ==
    Plus(Plus(Plus(Plus(Plus(Times(rw.pm2_5, 5), Times(rw.pm10, 3)),
                             Times(rw.nitrogen_dioxide, 4)),
                        Times(rw.sulphur_dioxide, 4)),
                   Times(rw.carbon_monoxide, 2)),
         Times(rw.ozone, 3))

\* Line 161: dropna(subset=pollutant_cols, how="all").
DropAllMissing(rws) ==
    SelectSeq(rws, LAMBDA rw : \E c \in pollutant_cols : ~IsNa(rw[c]))

\* The hour of day of a timestamp; a row's time counts the hours since the
\* midnight before the first reading.
HourOf(time) == time % 24

\* Lines 164-175 on one row: the numeric coercion and the derived columns.
DeriveRow(rw) ==
    LET num == [c \in DOMAIN rw |->
                    IF c \in pollutant_cols THEN ToNumeric(rw[c]) ELSE rw[c]]
    IN  num @@
        [aqi_category |-> categorize_aqi(num.pm2_5),
         severity_score |-> compute_severity(num),
         risk_flag |-> classify_risk(compute_severity(num)),
         hour |-> HourOf(num.time)]

DocSeqs == UNION {[1..n -> DocCatalog] : n \in 1..MaxDocs}

TransformInit ==
    /\ LoadIdle
    /\ ChurnIdle
    /\ RiskIdle
    /\ CleanIdle
    /\ PipeIdle
    /\ docs \in DocSeqs
    /\ xpc = "files"
    /\ file_ix = 0
    /\ all_rows = <<>>
    /\ out_df = <<>>

\* Lines 71-151: one pass of the loop over the directory listing.
TransformDoc ==
    /\ xpc = "files"
    /\ file_ix < Len(docs)
    /\ LET d == docs[file_ix + 1]
           city == file_ix + 1
       IN  \/ /\ d.kind \in {"unreadable", "unknown"}
              \* lines 82-84, 149-151: logged, continue
              /\ file_ix' = file_ix + 1
              /\ UNCHANGED <<all_rows, xpc>>
           \/ /\ d.kind = "scalar"
              \* line 95: `"results" in raw` raises TypeError
              /\ xpc' = "raised"
              /\ UNCHANGED <<all_rows, file_ix>>
           \/ /\ d.kind = "keyed"
              \* the membership test of line 95 or 131 is true and
              \* raw["results"] (line 96) or raw["hourly"] (line 132) raises
              \* TypeError
              /\ xpc' = "raised"
              /\ UNCHANGED <<all_rows, file_ix>>
           \/ /\ d.kind = "results"
              /\ all_rows' = all_rows \o ResultsRows(city, d)
              /\ file_ix' = file_ix + 1
              /\ UNCHANGED xpc
           \/ /\ d.kind = "hourly"
              /\ all_rows' = all_rows \o HourlyRows(city, d)
              /\ IF HourlyIndexable(d) < d.n
                 THEN \* IndexError in lines 139-145
                      /\ xpc' = "raised"
                      /\ UNCHANGED file_ix
                 ELSE /\ file_ix' = file_ix + 1
                      /\ UNCHANGED xpc
    /\ UNCHANGED <<exceptTransform, docs, out_df>>

\* Lines 154-182.  A frame without rows has no columns and dropna raises
\* KeyError.  When the frame loses every row at line 161, df.apply of line
\* 171 returns a frame on older pandas (old_apply) and the assignment raises
\* ValueError; on newer pandas it returns an empty Series and a CSV without
\* rows is written.  The pandas version is not pinned.
TransformWrite(old_apply) ==
    /\ xpc = "files"
    /\ file_ix = Len(docs)
    /\ IF all_rows = <<>> \/ (DropAllMissing(all_rows) = <<>> /\ old_apply)
       THEN /\ xpc' = "raised"
            /\ UNCHANGED out_df
       ELSE /\ out_df' =
                [j \in 1..Len(DropAllMissing(all_rows)) |->
                    DeriveRow(DropAllMissing(all_rows)[j])]
            /\ xpc' = "done"
    /\ UNCHANGED <<exceptTransform, docs, file_ix, all_rows>>

TransformNext ==
    \/ TransformDoc
    \/ \E old_apply \in BOOLEAN : TransformWrite(old_apply)

TransformSpec == TransformInit /\ [][TransformNext]_vars

-----------------------------------------------------------------------------
(* air-quality loader, per-record coercion: urban_air_pollutants/load.py *)

\* Cells of a row of the staged frame after line 120, and of a record.
Timestamp(n) == [t |-> "ts", v |-> n]

NaT == [t |-> "nat", v |-> 0]

None == [t |-> "none", v |-> 0]

\* pd.Timestamp.isoformat(): the text of the instant.
IsoFormat(x) == [t |-> "iso", v |-> x.v]

\* isinstance(v, float) and np.isnan(v)
IsFloatNan(x) == x.t = "nan"

\* isinstance(v, pd.Timestamp): NaT is not an instance.
IsTimestamp(x) == x.t = "ts"

\* The columns of the staged CSV, in order.
StagedColumns ==
    <<"city", "time", "pm10", "pm2_5", "carbon_monoxide", "nitrogen_dioxide",
      "sulphur_dioxide", "ozone", "uv_index", "aqi_category",
      "severity_score", "risk_flag", "hour">>

\* The values a column of one row can hold after read_csv and to_datetime.
CellsOf(col) ==
    IF col = "time" THEN {Timestamp(0), Timestamp(1), NaT}
    ELSE IF col \in {"city", "risk_flag"} THEN {Text}
    ELSE IF col = "aqi_category" THEN {Text, NaN}
    ELSE IF col \in {"pm10", "pm2_5", "ozone", "uv_index", "severity_score",
                     "hour"} THEN {Num(20), NaN}
    ELSE {Num(20)}

RECURSIVE RowsUpTo(_)
RowsUpTo(n) ==
    IF n = 0 THEN {<<>>}
    ELSE {Append(r, c) : r \in RowsUpTo(n - 1), c \in CellsOf(StagedColumns[n])}

StagedRows == RowsUpTo(Len(StagedColumns))

\* A row (and a record) is the list of its items, in dict order.
Items(cells) ==
    [j \in 1..Len(StagedColumns) |-> [k |-> StagedColumns[j], v |-> cells[j]]]

\* Lines 45-57, on the items of row.to_dict().
clean_record(items) ==
    [j \in 1..Len(items) |->
        LET v == IF IsFloatNan(items[j].v) THEN None ELSE items[j].v
        IN  [k |-> items[j].k,
             v |-> IF items[j].k = "time" /\ IsTimestamp(v)
                   THEN IsoFormat(v) ELSE v]]

CleanInit ==
    /\ LoadIdle
    /\ ChurnIdle
    /\ RiskIdle
    /\ TransformIdle
    /\ PipeIdle
    /\ row \in {Items(r) : r \in StagedRows}
    /\ record = <<>>
    /\ passes = 0

\* Line 128: the record of one row.
CleanRecord ==
    /\ passes = 0
    /\ record' = clean_record(row)
    /\ passes' = 1
    /\ UNCHANGED <<exceptClean, row>>

CleanNext == CleanRecord

CleanSpec == CleanInit /\ [][CleanNext]_vars

-----------------------------------------------------------------------------
(* air-quality pipeline: urban_air_pollutants/run_pipeline.py *)

\* transform.py line 9.
OUTPUT_FILE == "data/staged/air_quality_transformed.csv"

\* The value of the call run_transform(): the function ends at line 182
\* without a return statement.
RunTransformResult == NoneValue

\* pd.read_csv(csv_path) at load.py line 114 raises ValueError when the
\* argument is None.
ReadCsvRaises(path) == path = NoneValue

PipelineInit ==
    /\ LoadIdle
    /\ ChurnIdle
    /\ RiskIdle
    /\ CleanIdle
    /\ TransformIdle
    /\ ppc = "extract"
    /\ called = <<>>
    /\ staged_csv = Unassigned
    /\ csv_path = Unassigned

\* Lines 9-11: fetch_all_cities() returns; RAW_DIR then holds the raw
\* documents, whatever the remote APIs answered.
PipeExtract ==
    /\ ppc = "extract"
    /\ called' = Append(called, "extract")
    /\ docs' \in DocSeqs \cup {<<>>}
    /\ ppc' = "extracted"
    /\ UNCHANGED <<exceptPipe, xpc, file_ix, all_rows, out_df, staged_csv,
                   csv_path>>

\* Line 15: the call of run_transform.
PipeCallTransform ==
    /\ ppc = "extracted"
    /\ called' = Append(called, "transform")
    /\ xpc' = "files"
    /\ ppc' = "transform"
    /\ UNCHANGED <<exceptPipe, docs, file_ix, all_rows, out_df, staged_csv,
                   csv_path>>

\* run_transform running inside the pipeline.
PipeTransformStep ==
    /\ ppc = "transform"
    /\ \/ TransformDoc
       \/ \E old_apply \in BOOLEAN : TransformWrite(old_apply)

\* Lines 15-17: run_transform returns and staged_csv is bound, or its
\* exception leaves run_full_pipeline.
PipeTransformReturn ==
    /\ ppc = "transform"
    /\ xpc \in {"done", "raised"}
    /\ IF xpc = "done"
       THEN /\ staged_csv' = RunTransformResult
            /\ ppc' = "create_table"
       ELSE /\ ppc' = "raised"
            /\ UNCHANGED staged_csv
    /\ UNCHANGED <<exceptPipe, transformVars, called, csv_path>>

\* Line 20: create_table_if_not_exists catches its own exceptions.
PipeCreateTable ==
    /\ ppc = "create_table"
    /\ called' = Append(called, "create_table")
    /\ ppc' = "load"
    /\ UNCHANGED <<exceptPipe, transformVars, staged_csv, csv_path>>

\* Line 21 up to load.py line 114: load_to_supabase(staged_csv) reads the
\* CSV.  With a path the load goes on as the air loader does (AirOpen ..
\* AirFinish), which the pipeline part does not follow.
PipeLoad ==
    /\ ppc = "load"
    /\ called' = Append(called, "load")
    /\ csv_path' = staged_csv
    /\ ppc' = IF ReadCsvRaises(staged_csv) THEN "raised" ELSE "loading"
    /\ UNCHANGED <<exceptPipe, transformVars, staged_csv>>

PipelineNext ==
    \/ PipeExtract
    \/ PipeCallTransform
    \/ PipeTransformStep
    \/ PipeTransformReturn
    \/ PipeCreateTable
    \/ PipeLoad

PipelineSpec == PipelineInit /\ [][PipelineNext]_vars

-----------------------------------------------------------------------------
(* Vocabulary of the properties *)

\* The insert calls of the current chunk, in order.
Inserts(t) == SelectSeq(t, LAMBDA e : e.kind = "insert")

\* Chunk cur has just been resolved (inserted or given up).
Resolved == pc \in {"loop", "done"} /\ cur > 0

\* The retry budget each loader declares.
Budget(l) == IF l = "churn" THEN max_retries ELSE retries

StepOf(l) == IF l = "churn" THEN batch_size ELSE BATCH_SIZE

AllChunks == 1 .. NumChunks(total_rows, StepOf(loader))

\* The remote insert failed: an exception, or an error in the response.
RemoteFails(o) == o.exc \/ o.error

\* The remote insert succeeded: a response with data and without error.
RemoteSucceeds(o) == ~o.exc /\ ~o.error /\ o.data

Persisted(r) == \E j \in 1..Len(table) : table[j] = r

\* The value load_to_supabase returns when exactly the chunks F fail.
ReturnOf(l, n, F) ==
    IF l = "churn" THEN <<>>
    ELSE <<RowsIn(n, (1 .. NumChunks(n, BATCH_SIZE)) \ F, BATCH_SIZE),
           RowsIn(n, F, BATCH_SIZE)>>

-----------------------------------------------------------------------------
(* Properties *)

\* C1: a chunk that is given up (every insert attempt failed) has received
\* exactly max_retries + 1 insert attempts: 4 in the churn loader, 3 in the
\* air-quality loader.
C1_GivenUpAfterBudgetPlusOne ==
    (Resolved /\ cur \in failed) =>
        Len(Inserts(trail)) = Budget(loader) + 1

\* C2: if the remote insert fails N-1 times and succeeds on the Nth, for any
\* N <= budget + 1, the loader makes exactly N attempts, does not send the
\* chunk again after the successful attempt and counts it as succeeded.  On
\* a resolved chunk: no attempt follows a successful one, a chunk whose last
\* attempt succeeded is counted as succeeded, and a chunk whose attempts all
\* failed was given all budget + 1 of them (so every N had its chance).
C2_SucceedsOnNthAttempt ==
    Resolved =>
        LET ins == Inserts(trail)
            n == Len(ins)
        IN  /\ \A j \in 1..(n - 1) : ~RemoteSucceeds(ins[j].o)
            /\ RemoteSucceeds(ins[n].o) => cur \in succeeded
            /\ (\A j \in 1..n : RemoteFails(ins[j].o)) => n = Budget(loader) + 1

\* C3: an attempt whose response carries an error payload is never taken as
\* a success, and a chunk is counted as succeeded only on an attempt that
\* neither raised nor carried an error.
C3_ErrorPayloadIsFailure ==
    /\ \A j \in 1..Len(trail) :
          (trail[j].kind = "insert" /\ trail[j].o.error) => ~trail[j].ok
    /\ (Resolved /\ cur \in succeeded) =>
          LET last == Inserts(trail)[Len(Inserts(trail))]
          IN  ~last.o.exc /\ ~last.o.error

\* C4: a given-up chunk does not abort the run: when the run ends every
\* chunk of the partition has received an insert attempt, chunks are taken
\* up in order without gaps, and a run leaves without finishing only before
\* its first chunk.
C4_EveryChunkAttempted ==
    /\ pc = "done" => attempted = AllChunks
    /\ pc \in {"loop", "try", "sleep"} => attempted \subseteq 1..cur
    /\ (pc = "loop" /\ cur > 0) => attempted = 1..cur
    /\ pc \in {"early", "raised"} => cur = 0

C4_Witness ==
    /\ pc = "done"
    /\ \E k \in failed : k + 1 \in attempted /\ k + 1 \in AllChunks

\* C5: in the air-quality loader each resolved chunk's rows are in exactly
\* one of success_count and fail_count: the counters are the rows of the
\* chunks taken as inserted and of the chunks given up, their sum is the rows
\* of the chunks resolved so far, and the rows of the input when the run ends.
C5_CountersPartitionRows ==
    loader = "air" =>
        /\ success_count = RowsIn(total_rows, succeeded, BATCH_SIZE)
        /\ fail_count = RowsIn(total_rows, failed, BATCH_SIZE)
        /\ succeeded \cap failed = {}
        /\ pc = "loop" => succeeded \cup failed = 1..cur
        /\ pc = "loop" =>
              success_count + fail_count = Min(cur * BATCH_SIZE, total_rows)
        /\ pc = "done" =>
              /\ success_count + fail_count = total_rows
              /\ ret = <<success_count, fail_count>>

C5_Witness ==
    /\ loader = "air"
    /\ pc = "done"
    /\ succeeded # {}
    /\ failed # {}
    /\ total_rows % BATCH_SIZE # 0
    /\ ret[1] + ret[2] = total_rows

\* C6: the value a finished run returns identifies the chunks that failed:
\* no other set of failed chunks of the same input gives the same value.
C6_ReturnIdentifiesFailedChunks ==
    pc = "done" =>
        \A F \in SUBSET AllChunks :
            ReturnOf(loader, total_rows, F) = ret => F = failed

\* C7: a run that finishes hands its caller a report: the rows succeeded
\* and the rows failed (in both loaders).
C7_FinishedRunReturnsReport ==
    pc = "done" =>
        /\ Len(ret) = 2
        /\ ret[1] = RowsIn(total_rows, succeeded, StepOf(loader))
        /\ ret[2] = RowsIn(total_rows, failed, StepOf(loader))

\* C8: every backoff wait follows a failed attempt and, once the chunk is
\* resolved, is followed by another attempt of the same chunk: there is no
\* wait after the last permitted attempt, and none after a success.
C8_BackoffOnlyBeforeRetry ==
    \A j \in 1..Len(trail) :
        trail[j].kind = "sleep" =>
            /\ j > 1
            /\ trail[j - 1].kind = "insert"
            /\ ~trail[j - 1].ok
            /\ Resolved => (j < Len(trail) /\ trail[j + 1].kind = "insert")

\* C9: after a run a row of the input is absent from the remote table if
\* and only if its chunk was reported failed.
C9_AbsentIffChunkFailed ==
    pc = "done" =>
        \A r \in 1..total_rows :
            ~Persisted(r) <=> BatchNo(r - 1, StepOf(loader)) \in failed

\* C10: the chunks cut with step 200, concatenated in the order they are
\* sent, are at every moment a prefix of the input and at the end the input
\* itself: no row is lost, duplicated or reordered.
C10_ChunksConcatenateToInput ==
    /\ Len(sent) <= total_rows
    /\ sent = SubSeq(Frame(total_rows), 1, Len(sent))
    /\ (pc = "loop" /\ cur > 0) => Len(sent) = Min(cur * StepOf(loader), total_rows)
    /\ pc = "done" => sent = Frame(total_rows)

C10_Witness ==
    /\ pc = "done"
    /\ total_rows > 2 * StepOf(loader)
    /\ total_rows % StepOf(loader) # 0
    /\ sent = Frame(total_rows)

\* Twice the median of the numbers of column col of a frame (twice, to stay
\* in the integers when their count is even); defined when there is one.
ColumnNumbers(frame, col) ==
    {r \in 1..Len(frame) : ToNumeric(frame[r][col]).t = "num"}

KthSmallest(frame, col, k) ==
    LET rows == ColumnNumbers(frame, col)
        val(r) == frame[r][col].v
    IN  CHOOSE x \in {val(r) : r \in rows} :
            /\ Cardinality({r \in rows : val(r) < x}) < k
            /\ Cardinality({r \in rows : val(r) <= x}) >= k

Median2(frame, col) ==
    LET n == Cardinality(ColumnNumbers(frame, col))
    IN  IF n % 2 = 1 THEN 2 * KthSmallest(frame, col, (n + 1) \div 2)
        ELSE KthSmallest(frame, col, n \div 2)
             + KthSmallest(frame, col, n \div 2 + 1)

\* Lower-inclusive, upper-exclusive bands at 12, 36 and 60.
LowerInclusiveTenureBand(v) ==
    IF v < 12 THEN "New"
    ELSE IF v < 36 THEN "Regular"
    ELSE IF v < 60 THEN "Loyal"
    ELSE "Champion"

\* C11: after the fill of transform_data no row has a missing value in
\* tenure, MonthlyCharges or TotalCharges, and every cell that was missing
\* holds the numeric median of its column over the whole input.
C11_MissingFilledWithMedian ==
    cpc \in {"filled", "staged"} =>
        \A r \in 1..Len(churn_df) : \A col \in FillCols :
            /\ ~IsNa(churn_df[r][col])
            /\ (IsNa(ToNumeric(raw_df[r][col]))
                    /\ ColumnNumbers(raw_df, col) # {}) =>
                  /\ churn_df[r][col].t = "num"
                  /\ 2 * churn_df[r][col].v = Median2(raw_df, col)

\* C12: tenure_group follows lower-inclusive, upper-exclusive bands at 12,
\* 36 and 60: 12 is Regular, 36 Loyal, 60 Champion, and 11, 35, 59 are New,
\* Regular, Loyal.
C12_TenureBandsLowerInclusive ==
    cpc = "staged" =>
        \A r \in 1..Len(churn_df) :
            (churn_df[r].tenure.t = "num" /\ churn_df[r].tenure.v >= 0) =>
                churn_df[r].tenure_group =
                    LowerInclusiveTenureBand(churn_df[r].tenure.v)

\* C20: when the loaded table carries every label the transform produces,
\* run_validation reports no missing tenure group and no missing charge
\* segment; a band is reported missing only if no loaded row carries it.
C20_ValidatorAgreesWithTransform ==
    cpc = "validated" =>
        LET tg == {df_supabase[r].tenure_group : r \in 1..Len(df_supabase)}
            cs == {df_supabase[r].monthly_charge_segment :
                        r \in 1..Len(df_supabase)}
        IN  /\ {"New", "Regular", "Loyal", "Champion"} \subseteq tg =>
                    summary.missing_tenure_groups = {}
            /\ {"Low", "Medium", "High"} \subseteq cs =>
                    summary.missing_charge_segments = {}
            /\ summary.missing_tenure_groups \cap tg = {}
            /\ summary.missing_charge_segments \cap cs = {}

\* C13: the risk band is lower-inclusive at 200 and 400: exactly 200 is
\* Moderate Risk and exactly 400 is High Risk, 199 is Low Risk and 399 is
\* Moderate Risk.
C13_RiskBandsLowerInclusive ==
    (risk_flag # NoColumn /\ severity.t = "num") =>
        /\ severity.v < 200 => risk_flag = "Low Risk"
        /\ (200 <= severity.v /\ severity.v < 400) => risk_flag = "Moderate Risk"
        /\ severity.v >= 400 => risk_flag = "High Risk"

\* The rows of all_rows that come from the document at position j.
RowsFrom(j) == SelectSeq(all_rows, LAMBDA rw : rw.city = j)

\* The documents the loop has finished with.
Processed == 1..file_ix

\* The loop stopped on an exception while working on document j.
RaisedOn(j) == xpc = "raised" /\ file_ix < Len(docs) /\ j = file_ix + 1

\* The number of measurements of a station-shaped document.
NumMeasurements(d) == Len(Flatten(d.results))

\* C14: every document of the hourly shape with k timestamps has k rows and
\* every document of the station shape has one row per measurement, whatever
\* pollutants it supplies; each row carries the six pollutant columns, and a
\* pollutant the document does not supply is a missing value in it.
C14_OneRowPerReading ==
    \A j \in 1..Len(docs) :
        /\ ~(RaisedOn(j) /\ docs[j].kind \in {"hourly", "results"})
        /\ (j \in Processed /\ docs[j].kind = "hourly") =>
                /\ Len(RowsFrom(j)) = docs[j].n
                /\ \A r \in 1..Len(RowsFrom(j)) :
                     \A c \in pollutant_cols :
                        /\ c \in DOMAIN RowsFrom(j)[r]
                        /\ c \notin docs[j].has => IsNa(RowsFrom(j)[r][c])
        /\ (j \in Processed /\ docs[j].kind = "results") =>
                /\ Len(RowsFrom(j)) = NumMeasurements(docs[j])
                /\ \A r \in 1..Len(RowsFrom(j)) :
                     \A c \in pollutant_cols :
                        /\ c \in DOMAIN RowsFrom(j)[r]
                        /\ c # ParameterColumn(Flatten(docs[j].results)[r].parameter)
                              => IsNa(RowsFrom(j)[r][c])

\* The documents that are unreadable or of neither shape.
Unusable(d) == d.kind \in {"unreadable", "scalar", "unknown", "keyed"}

\* The number of rows a usable document stands for.
Readings(d) == IF d.kind = "hourly" THEN d.n ELSE NumMeasurements(d)

\* C15: a document that is unreadable or of neither shape contributes no row
\* and does not stop the run: the documents after it are processed and the
\* rows of the documents before it stay as they were.
C15_UnusableDocumentSkipped ==
    \A j \in 1..Len(docs) :
        Unusable(docs[j]) =>
            /\ RowsFrom(j) = <<>>
            /\ ~RaisedOn(j)
            /\ \A e \in 1..(j - 1) :
                 (j \in Processed /\ ~Unusable(docs[e])) =>
                     Len(RowsFrom(e)) = Readings(docs[e])

RiskBands == {"Low Risk", "Moderate Risk", "High Risk"}

\* A row of the output in which some pollutant reading is missing.
Incomplete(rw) == \E c \in pollutant_cols : IsNa(rw[c])

Weighted(x, k) == IF x.t = "num" THEN x.v * k ELSE 0

\* The score in which a missing reading contributes nothing.
ScoreOfPresent(rw) ==
    Weighted(rw.pm2_5, 5) + Weighted(rw.pm10, 3)
    + Weighted(rw.nitrogen_dioxide, 4) + Weighted(rw.sulphur_dioxide, 4)
    + Weighted(rw.carbon_monoxide, 2) + Weighted(rw.ozone, 3)

ZeroContribution(rw) ==
    /\ rw.severity_score = Num(ScoreOfPresent(rw))
    /\ rw.risk_flag = classify_risk(rw.severity_score)

Invalidated(rw) == IsNa(rw.severity_score) /\ rw.risk_flag \notin RiskBands

IncompleteRows == {r \in 1..Len(out_df) : Incomplete(out_df[r])}

\* C18: the written rows with a missing pollutant reading follow one policy:
\* in all of them the missing reading contributes zero to the severity score,
\* or none of them carries a score and a risk band derived from it.
C18_MissingReadingPolicy ==
    xpc = "done" =>
        \/ \A r \in IncompleteRows : ZeroContribution(out_df[r])
        \/ \A r \in IncompleteRows : Invalidated(out_df[r])

\* A missing-value marker of the frame: float NaN or NaT.
MissingMarker(x) == x.t \in {"nan", "nat"}

\* C19: clean_record changes only missing-value markers (to None) and the
\* time field (to its ISO text), keeps the fields and their order, maps its
\* own result to itself, and leaves no missing-value marker in any field,
\* time included.
C19_CleanRecordCoercion ==
    passes = 1 =>
        /\ Len(record) = Len(row)
        /\ \A j \in 1..Len(row) :
            /\ record[j].k = row[j].k
            /\ record[j].v # row[j].v =>
                  \/ MissingMarker(row[j].v) /\ record[j].v = None
                  \/ /\ row[j].k = "time"
                     /\ IsTimestamp(row[j].v)
                     /\ record[j].v = IsoFormat(row[j].v)
            /\ ~MissingMarker(record[j].v)
        /\ clean_record(record) = record

\* The insert calls the retry loop of each loader permits for one chunk:
\* range(max_retries) and range(retries + 1).
PermittedAttempts(l) == IF l = "churn" THEN max_retries ELSE retries + 1

\* C16: chunks are loaded one after the other in partition order: while
\* chunk cur is being attempted every chunk before it is resolved (taken as
\* inserted, or given up after all permitted attempts) and no later chunk has
\* had an attempt; a chunk is given up only with all its attempts used.
C16_ChunksSequential ==
    /\ pc \in {"try", "sleep"} =>
          /\ 1..(cur - 1) \subseteq succeeded \cup failed
          /\ attempted \subseteq 1..cur
          /\ cur \notin succeeded \cup failed
    /\ (Resolved /\ cur \in failed) =>
          Len(Inserts(trail)) = PermittedAttempts(loader)
    /\ (Resolved /\ cur \in succeeded) =>
          Inserts(trail)[Len(Inserts(trail))].ok

C16_Witness ==
    /\ pc = "sleep"
    /\ cur = 3
    /\ 1 \in failed
    /\ 2 \in succeeded

\* The rows of chunk k of the frame.
ChunkOf(k) == Slice(Frame(total_rows), (k - 1) * StepOf(loader), StepOf(loader))

\* The number of times the remote committed chunk k.
Commits(k) ==
    LET first == ChunkOf(k)[1]
    IN  Len(SelectSeq(table, LAMBDA r : r = first))

\* The record list the next insert call of the current chunk sends.
Sending == IF loader = "churn" THEN records ELSE batch_records

\* C17: every attempt of a chunk sends the same record list; every chunk
\* counted as succeeded has been committed at least once; the commits of a
\* chunk are at most its attempts.
C17_AtLeastOnce ==
    /\ pc \in {"try", "sleep"} => Sending = ChunkOf(cur)
    /\ \A k \in succeeded : Commits(k) >= 1
    /\ cur > 0 => Commits(cur) <= Len(Inserts(trail))
    /\ \A k \in attempted : Commits(k) <= PermittedAttempts(loader)

\* C21: for every non-negative integer tenure the tenure_group the transform
\* stored and the customer_segment the analysis derives are the same label.
C21_SegmentationsAgree ==
    \A r \in 1..Len(analysis_df) :
        analysis_df[r].tenure.t = "num" =>
            analysis_df[r].tenure_group = analysis_df[r].customer_segment

\* C22: every row run_transform writes holds a number in at least one of the
\* six pollutant columns.
C22_WrittenRowHasReading ==
    xpc = "done" =>
        \A r \in 1..Len(out_df) :
            \E c \in pollutant_cols : out_df[r][c].t = "num"

StageOrder == <<"extract", "transform", "create_table", "load", "analysis">>

\* C23: the pipeline calls its stages in the order extract, transform,
\* create table, load, analysis; the value run_transform returns is the path
\* of the transformed CSV, and it is the file the load stage reads, after the
\* transform has written it.
C23_LoadReadsTransformOutput ==
    /\ Len(called) <= Len(StageOrder)
    /\ called = SubSeq(StageOrder, 1, Len(called))
    /\ staged_csv # Unassigned => staged_csv = OUTPUT_FILE
    /\ csv_path # Unassigned => csv_path = OUTPUT_FILE /\ xpc = "done"

=============================================================================
